---- MODULE Spec2Model ----
(***************************************************************************)
(* A model of the nuqs value codecs (parsers.ts), the parser builder       *)
(* (createParser / withDefault / withOptions) and the testing adapter      *)
(* (adapters/testing.ts) together with the update queue it resets.         *)
(*                                                                         *)
(* JavaScript strings are sequences of one-character strings.  Every       *)
(* JavaScript value is a record of one shape (tag, s, n, neg, items), so   *)
(* that values of different types can be compared.                         *)
(***************************************************************************)
EXTENDS Integers, Sequences, FiniteSets, TLC

\* ------------------------------------------------------------------ bounds

\* Longest raw string drawn from Alphabet.
MaxLen == 3
\* Longest array handed to parseAsArrayOf.serialize / parseServerSide.
MaxItems == 2
\* Largest integer / epoch-millisecond value drawn as a codec value.
MaxInt == 12
\* Number of builder calls (withOptions / withDefault) in one chain.
MaxChain == 3
\* Number of times NuqsTestingAdapter is called (the adapter mounted).
MaxMounts == 2
\* Number of writes enqueued in one behaviour.
MaxOps == 2
\* Number of calls of updateUrl in one behaviour.
MaxCalls == 2

\* ---------------------------------------------------------------- strings

\* The characters raw query strings are drawn from: a letter, two digits (2,
\* 5, C and a are also hex digits: %2C is "," and %25 is "%"), the default
\* separator, the escape character, and two unreserved marks.
Alphabet == {"a", "2", "5", "C", ",", "%", "-", "."}

RECURSIVE StrsOfLen(_, _)
StrsOfLen(A, n) ==
  IF n = 0 THEN {<<>>}
  ELSE {<<c>> \o s : c \in A, s \in StrsOfLen(A, n - 1)}

Strs(A, n) == UNION {StrsOfLen(A, k) : k \in 0..n}

STrue == <<"t", "r", "u", "e">>
SFalse == <<"f", "a", "l", "s", "e">>
SNull == <<"n", "u", "l", "l">>
SUndefined == <<"u", "n", "d", "e", "f", "i", "n", "e", "d">>
SNaN == <<"N", "a", "N">>

DigitChars == <<"0", "1", "2", "3", "4", "5", "6", "7", "8", "9">>

IsDigit(c) == \E i \in 1..10 : DigitChars[i] = c

DigitVal(c) == (CHOOSE i \in 1..10 : DigitChars[i] = c) - 1

\* Length of the longest prefix of s made of decimal digits.
RECURSIVE DigitPrefixLen(_)
DigitPrefixLen(s) ==
  IF s = <<>> \/ ~IsDigit(Head(s)) THEN 0 ELSE 1 + DigitPrefixLen(Tail(s))

\* The value of a sequence of decimal digits.
RECURSIVE DigitsValue(_)
DigitsValue(s) ==
  IF s = <<>> THEN 0
  ELSE 10 * DigitsValue(SubSeq(s, 1, Len(s) - 1)) + DigitVal(s[Len(s)])

\* The decimal digits of a natural number, without leading zeros.
RECURSIVE NatToStr(_)
NatToStr(n) ==
  IF n < 10 THEN <<DigitChars[n + 1]>>
  ELSE NatToStr(n \div 10) \o <<DigitChars[(n % 10) + 1]>>

\* s without its trailing "0" characters.
RECURSIVE TrimZeros(_)
TrimZeros(s) ==
  IF s # <<>> /\ s[Len(s)] = "0" THEN TrimZeros(SubSeq(s, 1, Len(s) - 1)) ELSE s

Drop(s, k) == SubSeq(s, k + 1, Len(s))

Take(s, k) == SubSeq(s, 1, k)

StartsWith(s, p) == Len(s) >= Len(p) /\ Take(s, Len(p)) = p

\* String.prototype.split(sep) for a non-empty separator: the segments
\* between the occurrences of sep, scanning from the left.
RECURSIVE SplitFrom(_, _, _)
SplitFrom(s, sep, cur) ==
  IF s = <<>> THEN <<cur>>
  ELSE IF StartsWith(s, sep) THEN <<cur>> \o SplitFrom(Drop(s, Len(sep)), sep, <<>>)
  ELSE SplitFrom(Tail(s), sep, Append(cur, Head(s)))

\* split(""): one segment per character (none for the empty string).
Split(s, sep) ==
  IF sep = <<>> THEN [i \in 1..Len(s) |-> <<s[i]>>] ELSE SplitFrom(s, sep, <<>>)

\* Array.prototype.join(sep) on an array of strings.
RECURSIVE Join(_, _)
Join(parts, sep) ==
  IF parts = <<>> THEN <<>>
  ELSE IF Len(parts) = 1 THEN parts[1]
  ELSE parts[1] \o sep \o Join(Tail(parts), sep)

\* ----------------------------------------------------------------- values

Val(tag, s, n, neg, items) ==
  [tag |-> tag, s |-> s, n |-> n, neg |-> neg, items |-> items]

Undefined == Val("undefined", <<>>, 0, FALSE, <<>>)
Null == Val("null", <<>>, 0, FALSE, <<>>)
Str(s) == Val("string", s, 0, FALSE, <<>>)
Bool(b) == Val("boolean", <<>>, 0, b, <<>>)
\* A number: sign, integer part, fraction digits without trailing zeros.
\* Zero carries no sign (0 === -0).
Num(neg, ip, fr) == Val("number", fr, ip, neg /\ ~(ip = 0 /\ fr = <<>>), <<>>)
IntV(i) == IF i < 0 THEN Num(TRUE, -i, <<>>) ELSE Num(FALSE, i, <<>>)
NaN == Val("NaN", <<>>, 0, FALSE, <<>>)
\* A Date holding a time value in milliseconds, and the Invalid Date.
DateOf(ms) == Val("date", <<>>, ms, FALSE, <<>>)
InvalidDate == Val("invalidDate", <<>>, 0, FALSE, <<>>)
Arr(items) == Val("array", <<>>, 0, FALSE, items)
\* The outcome of a call that throws: the error's name.
Throw(kind) == Val("throw", <<kind>>, 0, FALSE, <<>>)

IsThrow(v) == v.tag = "throw"
IsNullish(v) == v.tag \in {"null", "undefined"}
IsString(v) == v.tag = "string"
IsArray(v) == v.tag = "array"

\* ------------------------------------------------------- URI components

\* The characters of code 0 to 127, in order (control characters by name).
Ascii ==
  <<
  "<NUL>", "<SOH>", "<STX>", "<ETX>", "<EOT>", "<ENQ>", "<ACK>", "<BEL>",
  "<BS>", "<TAB>", "<LF>", "<VT>", "<FF>", "<CR>", "<SO>", "<SI>",
  "<DLE>", "<DC1>", "<DC2>", "<DC3>", "<DC4>", "<NAK>", "<SYN>", "<ETB>",
  "<CAN>", "<EM>", "<SUB>", "<ESC>", "<FS>", "<GS>", "<RS>", "<US>",
  " ", "!", "\"", "#", "$", "%", "&", "'",
  "(", ")", "*", "+", ",", "-", ".", "/",
  "0", "1", "2", "3", "4", "5", "6", "7",
  "8", "9", ":", ";", "<", "=", ">", "?",
  "@", "A", "B", "C", "D", "E", "F", "G",
  "H", "I", "J", "K", "L", "M", "N", "O",
  "P", "Q", "R", "S", "T", "U", "V", "W",
  "X", "Y", "Z", "[", "\\", "]", "^", "_",
  "<GRAVE>", "a", "b", "c", "d", "e", "f", "g",
  "h", "i", "j", "k", "l", "m", "n", "o",
  "p", "q", "r", "s", "t", "u", "v", "w",
  "x", "y", "z", "{", "|", "}", "~", "<DEL>"
  >>

CharCode(c) == (CHOOSE i \in 1..128 : Ascii[i] = c) - 1

HexChars == <<"0", "1", "2", "3", "4", "5", "6", "7", "8", "9",
              "A", "B", "C", "D", "E", "F">>

LowerHex == <<"a", "b", "c", "d", "e", "f">>

IsHex(c) == (\E i \in 1..16 : HexChars[i] = c) \/ (\E i \in 1..6 : LowerHex[i] = c)

HexVal(c) ==
  IF \E i \in 1..16 : HexChars[i] = c
  THEN (CHOOSE i \in 1..16 : HexChars[i] = c) - 1
  ELSE (CHOOSE i \in 1..6 : LowerHex[i] = c) + 9

\* uriUnreserved: letters, digits and - _ . ! ~ * ' ( )
IsUnreserved(c) ==
  LET k == CharCode(c) IN
  \/ k \in 48..57 \/ k \in 65..90 \/ k \in 97..122
  \/ c \in {"-", "_", ".", "!", "~", "*", "'", "(", ")"}

\* encodeURIComponent on a string of characters of code below 128: every
\* character that is not unreserved becomes % and two upper-case hex digits.
RECURSIVE EncodeURIComponent(_)
EncodeURIComponent(s) ==
  IF s = <<>> THEN <<>>
  ELSE LET c == Head(s)
           k == CharCode(c)
       IN (IF IsUnreserved(c) THEN <<c>>
           ELSE <<"%", HexChars[(k \div 16) + 1], HexChars[(k % 16) + 1]>>)
          \o EncodeURIComponent(Tail(s))

\* Stands for any decoded character of code 128 or more (a well-formed
\* multi-byte escape needs six characters or more).
NonAscii == "<U+0080..>"

\* Whether s starts with an escape %XY whose byte is a UTF-8 continuation.
IsContinuation(s) ==
  /\ Len(s) >= 3 /\ s[1] = "%" /\ IsHex(s[2]) /\ IsHex(s[3])
  /\ 16 * HexVal(s[2]) + HexVal(s[3]) \in 128..191

\* Number of continuation bytes a UTF-8 lead byte asks for (-1: not a lead).
Continuations(b) ==
  IF b \in 194..223 THEN 1
  ELSE IF b \in 224..239 THEN 2
  ELSE IF b \in 240..244 THEN 3
  ELSE -1

\* decodeURIComponent, as [ok, s]: ok is FALSE where it throws URIError (a %
\* not followed by two hex digits, or bytes that are not well-formed UTF-8).
RECURSIVE DecodeFrom(_)
DecodeFrom(s) ==
  IF s = <<>> THEN [ok |-> TRUE, s |-> <<>>]
  ELSE IF Head(s) # "%"
  THEN LET r == DecodeFrom(Tail(s)) IN [ok |-> r.ok, s |-> <<Head(s)>> \o r.s]
  ELSE IF Len(s) < 3 \/ ~IsHex(s[2]) \/ ~IsHex(s[3])
  THEN [ok |-> FALSE, s |-> <<>>]
  ELSE LET b == 16 * HexVal(s[2]) + HexVal(s[3])
           n == Continuations(b)
       IN IF b < 128
          THEN LET r == DecodeFrom(Drop(s, 3)) IN
               [ok |-> r.ok, s |-> <<Ascii[b + 1]>> \o r.s]
          ELSE IF n < 0 \/ \E i \in 1..n : ~IsContinuation(Drop(s, 3 * i))
          THEN [ok |-> FALSE, s |-> <<>>]
          ELSE LET r == DecodeFrom(Drop(s, 3 * (n + 1))) IN
               [ok |-> r.ok, s |-> <<NonAscii>> \o r.s]

DecodeURIComponent(s) ==
  LET r == DecodeFrom(s) IN IF r.ok THEN Str(r.s) ELSE Throw("URIError")

\* ---------------------------------------------------------------- numbers

\* Number.prototype.toString / toFixed() of a number within the bounds (no
\* exponent form below 1e21 and above 1e-7).
NumberToString(v) ==
  IF v.tag = "NaN" THEN SNaN
  ELSE (IF v.neg THEN <<"-">> ELSE <<>>) \o NatToStr(v.n)
       \o (IF v.s = <<>> THEN <<>> ELSE <<".">> \o v.s)

\* Math.round: to the nearest integer, halves toward +Infinity.
MathRound(v) ==
  IF v.tag = "NaN" \/ v.s = <<>> THEN v
  ELSE LET d == DigitVal(v.s[1])
           half == d = 5 /\ Len(v.s) = 1
           up == IF v.neg THEN d >= 5 /\ ~half ELSE d >= 5
       IN Num(v.neg, IF up THEN v.n + 1 ELSE v.n, <<>>)

\* parseInt(s) without a radix, on a string with no white space and no
\* "0x" prefix: an optional sign, then the longest run of decimal digits;
\* NaN when there is none.
ParseInt(s) ==
  LET neg == s # <<>> /\ Head(s) = "-"
      body == IF s # <<>> /\ Head(s) \in {"-", "+"} THEN Tail(s) ELSE s
      k == DigitPrefixLen(body)
  IN IF k = 0 THEN NaN ELSE Num(neg, DigitsValue(Take(body, k)), <<>>)

\* parseFloat(s) on a string with no white space, no exponent and no
\* "Infinity": an optional sign, then the longest prefix of the form
\* digits, digits.digits, digits. or .digits; NaN when there is none.
ParseFloat(s) ==
  LET neg == s # <<>> /\ Head(s) = "-"
      body == IF s # <<>> /\ Head(s) \in {"-", "+"} THEN Tail(s) ELSE s
      k == DigitPrefixLen(body)
      rest == Drop(body, k)
      dot == rest # <<>> /\ Head(rest) = "."
      f == IF dot THEN DigitPrefixLen(Tail(rest)) ELSE 0
      fr == IF dot THEN TrimZeros(Take(Tail(rest), f)) ELSE <<>>
  IN IF k = 0 /\ f = 0 THEN NaN
     ELSE Num(neg, DigitsValue(Take(body, k)), fr)


\* ------------------------------------------------------------------ JSON

\* ToString(v), as in a template literal `${v}` or an implicit conversion.
ToStr(v) ==
  CASE v.tag = "string" -> v.s
    [] v.tag = "undefined" -> SUndefined
    [] v.tag = "null" -> SNull
    [] v.tag = "boolean" -> (IF v.neg THEN STrue ELSE SFalse)
    [] v.tag \in {"number", "NaN"} -> NumberToString(v)

JsonResult(ok, v, rest) == [ok |-> ok, v |-> v, rest |-> rest]

JsonFail == JsonResult(FALSE, Null, <<>>)

\* The character a JSON escape \c stands for ("" when \c is no escape).
JsonEscape(c) ==
  CASE c \in {"\"", "\\", "/"} -> c
    [] c = "b" -> "<BS>"
    [] c = "f" -> "<FF>"
    [] c = "n" -> "<LF>"
    [] c = "r" -> "<CR>"
    [] c = "t" -> "<TAB>"
    [] OTHER -> ""

\* The rest of a JSON string after its opening quote; acc is what was read.
RECURSIVE JsonString(_, _)
JsonString(s, acc) ==
  IF s = <<>> THEN JsonFail
  ELSE IF Head(s) = "\"" THEN JsonResult(TRUE, Str(acc), Tail(s))
  ELSE IF Head(s) = "\\"
  THEN IF Len(s) >= 6 /\ s[2] = "u" /\ \A i \in 3..6 : IsHex(s[i])
       THEN LET k == 4096 * HexVal(s[3]) + 256 * HexVal(s[4])
                     + 16 * HexVal(s[5]) + HexVal(s[6])
            IN JsonString(Drop(s, 6),
                          Append(acc, IF k < 128 THEN Ascii[k + 1] ELSE NonAscii))
       ELSE IF Len(s) >= 2 /\ JsonEscape(s[2]) # ""
       THEN JsonString(Drop(s, 2), Append(acc, JsonEscape(s[2])))
       ELSE JsonFail
  ELSE IF Head(s) # NonAscii /\ CharCode(Head(s)) < 32 THEN JsonFail
  ELSE JsonString(Tail(s), Append(acc, Head(s)))

\* A JSON number without an exponent: -? (0 | [1-9][0-9]*) (. [0-9]+)?
JsonNumber(s) ==
  LET neg == Head(s) = "-"
      body == IF neg THEN Tail(s) ELSE s
      k == IF body # <<>> /\ Head(body) = "0" THEN 1 ELSE DigitPrefixLen(body)
      rest == Drop(body, k)
      dot == rest # <<>> /\ Head(rest) = "."
      f == IF dot THEN DigitPrefixLen(Tail(rest)) ELSE 0
  IN IF k = 0 \/ (dot /\ f = 0) THEN JsonFail
     ELSE JsonResult(TRUE,
                     Num(neg, DigitsValue(Take(body, k)),
                         IF dot THEN TrimZeros(Take(Tail(rest), f)) ELSE <<>>),
                     IF dot THEN Drop(rest, f + 1) ELSE rest)

\* A JSON value at the head of s (no white space; objects are not modelled),
\* and after an array's "[" its elements up to the closing "]".
RECURSIVE JsonValue(_), JsonElements(_, _)
JsonValue(s) ==
  IF s = <<>> THEN JsonFail
  ELSE IF StartsWith(s, SNull) THEN JsonResult(TRUE, Null, Drop(s, 4))
  ELSE IF StartsWith(s, STrue) THEN JsonResult(TRUE, Bool(TRUE), Drop(s, 4))
  ELSE IF StartsWith(s, SFalse) THEN JsonResult(TRUE, Bool(FALSE), Drop(s, 5))
  ELSE IF Head(s) = "\"" THEN JsonString(Tail(s), <<>>)
  ELSE IF Head(s) = "["
  THEN IF Len(s) >= 2 /\ s[2] = "]" THEN JsonResult(TRUE, Arr(<<>>), Drop(s, 2))
       ELSE JsonElements(Tail(s), <<>>)
  ELSE IF Head(s) = "-" \/ IsDigit(Head(s)) THEN JsonNumber(s)
  ELSE JsonFail

JsonElements(s, acc) ==
  LET r == JsonValue(s) IN
  IF ~r.ok \/ r.rest = <<>> THEN JsonFail
  ELSE IF Head(r.rest) = "]"
  THEN JsonResult(TRUE, Arr(Append(acc, r.v)), Tail(r.rest))
  ELSE IF Head(r.rest) = "," THEN JsonElements(Tail(r.rest), Append(acc, r.v))
  ELSE JsonFail

\* JSON.parse: the value, or SyntaxError when s is not exactly one value.
JsonParse(s) ==
  LET r == JsonValue(s) IN
  IF r.ok /\ r.rest = <<>> THEN r.v ELSE Throw("SyntaxError")

\* A string between quotes, with " and \ escaped (JSON.stringify's Quote;
\* the strings of the model hold no control characters).
RECURSIVE JsonQuoteBody(_)
JsonQuoteBody(s) ==
  IF s = <<>> THEN <<>>
  ELSE (IF Head(s) \in {"\"", "\\"} THEN <<"\\", Head(s)>> ELSE <<Head(s)>>)
       \o JsonQuoteBody(Tail(s))

\* JSON.stringify of null, a boolean, a number, a string or an array of these.
RECURSIVE JsonStringify(_)
JsonStringify(v) ==
  CASE v.tag \in {"null", "NaN", "undefined"} -> SNull
    [] v.tag = "boolean" -> (IF v.neg THEN STrue ELSE SFalse)
    [] v.tag = "number" -> NumberToString(v)
    [] v.tag = "string" -> <<"\"">> \o JsonQuoteBody(v.s) \o <<"\"">>
    [] v.tag = "array" ->
         <<"[">> \o Join([i \in 1..Len(v.items) |-> JsonStringify(v.items[i])], <<",">>)
         \o <<"]">>


\* ----------------------------------------------------------------- dates

\* What Date.parse makes of a string that is not in the ISO format is left
\* to the implementation: a strict engine rejects it, a lenient one may read
\* a date out of a string that holds a digit.
Engines == {"strict", "lenient"}

IsoPrefix ==
  <<"1", "9", "7", "0", "-", "0", "1", "-", "0", "1", "T", "0", "0", ":", "0", "0", ":">>

IsoYearSuffix ==
  <<"-", "0", "1", "-", "0", "1", "T", "0", "0", ":", "0", "0", ":", "0", "0",
    ".", "0", "0", "0", "Z">>

\* The Date of 1 January of a four-digit year, 00:00 UTC (but for 1970 its
\* time value is beyond the integers of the model, so the year stands for it).
DateOfYear(yyyy) ==
  IF yyyy = <<"1", "9", "7", "0">> THEN DateOf(0) ELSE Val("date", yyyy, -1, TRUE, <<>>)

\* The Date a lenient engine reads out of a string not in the ISO format.
DateOfLegacy(s) == Val("date", <<"legacy">> \o s, -1, FALSE, <<>>)

Pad(s, k) == [i \in 1..(k - Len(s)) |-> "0"] \o s

\* Date.prototype.toISOString for a time value within the first minute of
\* the epoch or the start of a four-digit year; RangeError on Invalid Date.
ToISOString(v) ==
  CASE v.tag = "invalidDate" -> Throw("RangeError")
    [] v.tag = "date" /\ v.neg -> Str(v.s \o IsoYearSuffix)
    [] v.tag = "date" /\ ~v.neg /\ v.n \in 0..59999 ->
         Str(IsoPrefix \o Pad(NatToStr(v.n \div 1000), 2) \o <<".">>
             \o Pad(NatToStr(v.n % 1000), 3) \o <<"Z">>)

AllDigits(s) == \A i \in 1..Len(s) : IsDigit(s[i])

\* new Date(string): the ISO forms 1970-01-01T00:00:ss.sssZ (the first
\* minute of the epoch), YYYY-01-01T00:00:00.000Z and YYYY; anything else is
\* the engine's choice.
DateParse(s, engine) ==
  IF /\ Len(s) = 24 /\ Take(s, 17) = IsoPrefix /\ s[20] = "." /\ s[24] = "Z"
     /\ AllDigits(SubSeq(s, 18, 19)) /\ AllDigits(SubSeq(s, 21, 23))
     /\ DigitsValue(SubSeq(s, 18, 19)) < 60
  THEN DateOf(1000 * DigitsValue(SubSeq(s, 18, 19)) + DigitsValue(SubSeq(s, 21, 23)))
  ELSE IF Len(s) = 24 /\ AllDigits(Take(s, 4)) /\ Drop(s, 4) = IsoYearSuffix
  THEN DateOfYear(Take(s, 4))
  ELSE IF Len(s) = 4 /\ AllDigits(s) THEN DateOfYear(s)
  ELSE IF engine = "lenient" /\ \E i \in 1..Len(s) : IsDigit(s[i])
  THEN DateOfLegacy(s)
  ELSE InvalidDate

\* ---------------------------------------------------------------- codecs

\* A codec: its kind, and for parseAsArrayOf the item parser's kind and the
\* separator, for parseAsJson the validator ("none" when not given).
Codec(kind, item, sep, validator) ==
  [kind |-> kind, item |-> item, sep |-> sep, validator |-> validator]

Scalar(kind) == Codec(kind, "none", <<>>, "none")

\* The validValues handed to parseAsStringEnum.
ValidValues == {<<"a">>, <<"a", "2">>}

\* A validator handed to parseAsJson: "number" returns its argument when it
\* is a number and throws otherwise (as a schema's parse does).
ApplyValidator(validator, obj) ==
  IF validator = "number" /\ obj.tag # "number" THEN Throw("ValidationError") ELSE obj

NumOrNull(x) == IF x.tag = "NaN" THEN Null ELSE x

\* parseAsJson(parser).parse: the body of the try block, a throw from
\* decodeURIComponent, JSON.parse or the validator being caught.
ParseJson(validator, v) ==
  LET dec == DecodeURIComponent(ToStr(v))
      obj == IF IsThrow(dec) THEN dec ELSE JsonParse(dec.s)
      res == IF IsThrow(obj) \/ validator = "none" THEN obj
             ELSE ApplyValidator(validator, obj)
  IN IF IsThrow(res) THEN Null ELSE res

\* The parse function of every codec but parseAsArrayOf, applied to v: a
\* string, or undefined when parseServerSide hands over value[0] of [].
ParseScalar(kind, validator, engine, v) ==
  CASE kind \in {"string", "custom"} -> v
    [] kind = "integer" -> NumOrNull(ParseInt(ToStr(v)))
    [] kind = "float" -> NumOrNull(ParseFloat(ToStr(v)))
    [] kind = "boolean" -> Bool(v = Str(STrue))
    [] kind = "timestamp" ->
         LET i == ParseInt(ToStr(v)) IN
         IF i.tag = "NaN" THEN InvalidDate ELSE DateOf(IF i.neg THEN -i.n ELSE i.n)
    [] kind = "isoDateTime" ->
         IF IsString(v) THEN DateParse(v.s, engine) ELSE InvalidDate
    [] kind = "stringEnum" ->
         IF IsString(v) /\ v.s \in ValidValues THEN v ELSE Null
    [] kind = "json" -> ParseJson(validator, v)

\* segments.map(decodeURIComponent): the decoded segments, or the first throw.
RECURSIVE MapDecode(_)
MapDecode(segs) ==
  IF segs = <<>> THEN Arr(<<>>)
  ELSE LET d == DecodeURIComponent(Head(segs)) IN
       IF IsThrow(d) THEN d
       ELSE LET r == MapDecode(Tail(segs)) IN
            IF IsThrow(r) THEN r ELSE Arr(<<d>> \o r.items)

\* items.filter(value => value !== null && value !== undefined)
RECURSIVE FilterNullish(_)
FilterNullish(items) ==
  IF items = <<>> THEN <<>>
  ELSE (IF IsNullish(Head(items)) THEN <<>> ELSE <<Head(items)>>)
       \o FilterNullish(Tail(items))

\* parseAsArrayOf(itemParser, separator).parse
ParseArrayOf(c, engine, v) ==
  IF v = Str(<<>>) THEN Arr(<<>>)
  ELSE IF ~IsString(v) THEN Throw("TypeError")
  ELSE LET dec == MapDecode(Split(v.s, c.sep)) IN
       IF IsThrow(dec) THEN dec
       ELSE Arr(FilterNullish(
              [i \in 1..Len(dec.items) |->
                 ParseScalar(c.item, c.validator, engine, dec.items[i])]))

\* codec.parse(v)
Parse(c, engine, v) ==
  IF c.kind = "arrayOf" THEN ParseArrayOf(c, engine, v)
  ELSE ParseScalar(c.kind, c.validator, engine, v)

\* The serialize function of every codec but parseAsArrayOf; a parser of
\* kind "custom" has none.
SerializeScalar(kind, v) ==
  CASE kind = "string" -> Str(ToStr(v))
    [] kind = "integer" -> Str(NumberToString(MathRound(v)))
    [] kind = "float" -> Str(NumberToString(v))
    [] kind = "boolean" -> Str(IF v = Bool(TRUE) THEN STrue ELSE SFalse)
    [] kind = "timestamp" ->
         Str(IF v.tag = "invalidDate" THEN SNaN
             ELSE IF v.n < 0 THEN <<"-">> \o NatToStr(-v.n) ELSE NatToStr(v.n))
    [] kind = "isoDateTime" -> ToISOString(v)
    [] kind = "stringEnum" -> Str(v.s)
    [] kind = "json" ->
         Str(EncodeURIComponent(IF v = Undefined THEN SUndefined ELSE JsonStringify(v)))

\* parseAsArrayOf(itemParser, separator).serialize
SerializeArrayOf(c, v) ==
  LET ser(x) == IF c.item # "custom" THEN SerializeScalar(c.item, x) ELSE Str(ToStr(x))
      parts == [i \in 1..Len(v.items) |-> ser(v.items[i])]
  IN IF \E i \in 1..Len(parts) : IsThrow(parts[i])
     THEN parts[CHOOSE i \in 1..Len(parts) :
                  IsThrow(parts[i]) /\ \A j \in 1..(i - 1) : ~IsThrow(parts[j])]
     ELSE Str(Join([i \in 1..Len(parts) |-> EncodeURIComponent(parts[i].s)], c.sep))

\* codec.serialize(v)
Serialize(c, v) ==
  IF c.kind = "arrayOf" THEN SerializeArrayOf(c, v) ELSE SerializeScalar(c.kind, v)

\* parseServerSide reading the last element of an array instead of the first.
ServerSideStrLast(raw) ==
  IF IsArray(raw)
  THEN (IF raw.items = <<>> THEN Undefined ELSE raw.items[Len(raw.items)])
  ELSE IF IsString(raw) THEN raw ELSE Str(<<>>)

\* The local str of parseServerSide(value = '') when it calls this.parse:
\* '' at first, value[0] for an array (undefined when the array is empty),
\* value for a string.
ServerSideStr(raw) ==
  LET value == IF raw = Undefined THEN Str(<<>>) ELSE raw
      str0 == Str(<<>>)
      str1 == IF IsArray(value)
              THEN (IF value.items = <<>> THEN Undefined ELSE value.items[1])
              ELSE str0
  IN IF IsString(value) THEN value ELSE str1

\* createParser(parser).parseServerSide(value)
ParseServerSide(c, engine, raw) == Parse(c, engine, ServerSideStr(raw))


\* --------------------------------------------------------------- builders

OptionKeys == {"history", "shallow", "scroll", "throttleMs"}

\* An Options object: each key is "absent" or holds its value.
NoOptions == [k \in OptionKeys |-> "absent"]

\* A builder object: the codec whose parse and serialize it carries, its
\* option properties, its defaultValue property (is it there, and its value)
\* and its parseServerSide, which is createParser's when defaults is empty
\* and else the closure withDefault made: defaults lists, innermost first,
\* the defaultValue each closure of the chain of nullableParse captured.
Builder(c, options, hasDefault, defaultValue, defaults) ==
  [codec |-> c, options |-> options, hasDefault |-> hasDefault,
   defaultValue |-> defaultValue, defaults |-> defaults]

\* createParser(parser)
CreateParser(c) == Builder(c, NoOptions, FALSE, Undefined, <<>>)

\* { ...this, ...options }: the keys options holds override the builder's.
SpreadOptions(b, options) ==
  [b EXCEPT !.options =
     [k \in OptionKeys |-> IF options[k] = "absent" THEN b.options[k] ELSE options[k]]]

\* this.withDefault(defaultValue): a copy of this with defaultValue and a
\* parseServerSide that falls back on it after this.parseServerSide.
WithDefaultResult(b, d) ==
  [b EXCEPT !.hasDefault = TRUE, !.defaultValue = d, !.defaults = Append(b.defaults, d)]

\* x ?? d
Coalesce(x, d) == IF IsNullish(x) THEN d ELSE x

\* nullableParse(value) ?? defaultValue, through the chain of closures.
RECURSIVE ApplyDefaults(_, _)
ApplyDefaults(x, defaults) ==
  IF defaults = <<>> \/ IsThrow(x) THEN x
  ELSE ApplyDefaults(Coalesce(x, Head(defaults)), Tail(defaults))

\* builder.parseServerSide(raw)
BuilderParseServerSide(b, engine, raw) ==
  ApplyDefaults(ParseServerSide(b.codec, engine, raw), b.defaults)

\* withOptions assigning the options to the receiver itself.
HeapAfterWithOptionsInPlace(h, i, options) ==
  Append([h EXCEPT ![i] = SpreadOptions(h[i], options)], SpreadOptions(h[i], options))

\* The objects after h[i].withOptions(options): one more, the others as they were.
HeapAfterWithOptions(h, i, options) == Append(h, SpreadOptions(h[i], options))

\* The objects after h[i].withDefault(d).
HeapAfterWithDefault(h, i, d) == Append(h, WithDefaultResult(h[i], d))

\* ----------------------------------------------- URL search parameters

\* A URLSearchParams object: its pairs <<key, value>>, in order.
ParamsHas(p, k) == \E i \in 1..Len(p) : p[i][1] = k

ParamsGet(p, k) == p[CHOOSE i \in 1..Len(p) : p[i][1] = k /\ \A j \in 1..(i - 1) : p[j][1] # k][2]

\* URLSearchParams.delete(k)
ParamsDelete(p, k) == SelectSeq(p, LAMBDA e : e[1] # k)

\* URLSearchParams.set(k, v): the first pair of key k takes the value and
\* the others go; a new pair is appended when there is none.
ParamsSet(p, k, v) ==
  IF ~ParamsHas(p, k) THEN Append(p, <<k, v>>)
  ELSE LET first == CHOOSE i \in 1..Len(p) : p[i][1] = k /\ \A j \in 1..(i - 1) : p[j][1] # k
       IN SubSeq(p, 1, first - 1) \o <<<<k, v>>>> \o ParamsDelete(SubSeq(p, first + 1, Len(p)), k)

\* new URLSearchParams(init): init is undefined ("none") or a string, a
\* record or a URLSearchParams, given by the pairs it denotes.
NewURLSearchParams(init) == IF init.form = "none" THEN <<>> ELSE init.pairs

\* renderQueryString(search): key=value joined by &, in the order of the
\* pairs (the keys and values of the model are unreserved characters, which
\* percent-encoding leaves as they are).
RenderQueryString(search) ==
  Join([i \in 1..Len(search) |-> <<search[i][1], "=", search[i][2]>>], <<"&">>)

\* ------------------------------------------------------- testing adapter

\* The props of NuqsTestingAdapter: searchParams (an init as above),
\* onUrlUpdate (TRUE when a callback is given), rateLimitFactor and
\* resetUrlUpdateQueueOnMount ("absent" when not given).
Props(searchParams, onUrlUpdate, rateLimitFactor, resetOnMount) ==
  [searchParams |-> searchParams, onUrlUpdate |-> onUrlUpdate,
   rateLimitFactor |-> rateLimitFactor, resetUrlUpdateQueueOnMount |-> resetOnMount]

\* resetUrlUpdateQueueOnMount = true taken as the default only when the
\* prop is "true": the default left out.
ResetOnMountNoDefault(props) == props.resetUrlUpdateQueueOnMount = "true"

\* Whether NuqsTestingAdapter(props) calls resetQueue(): the prop, true by
\* default.
ResetOnMount(props) == props.resetUrlUpdateQueueOnMount # "false"

\* What useAdapter() returns beside updateUrl.
UseAdapter(props) ==
  [searchParams |-> NewURLSearchParams(props.searchParams),
   rateLimitFactor |-> IF props.rateLimitFactor = "absent" THEN "0"
                       ELSE props.rateLimitFactor]

\* updateUrl reporting the adapter's own searchParams instead of search.
UpdateUrlOwnParams(props, search, options) ==
  IF props.onUrlUpdate
  THEN <<[searchParams |-> NewURLSearchParams(props.searchParams),
          queryString |-> RenderQueryString(NewURLSearchParams(props.searchParams)),
          options |-> options]>>
  ELSE <<>>

\* updateUrl(search, options): the events handed to props.onUrlUpdate (none
\* when there is no callback).
UpdateUrl(props, search, options) ==
  IF props.onUrlUpdate
  THEN <<[searchParams |-> search, queryString |-> RenderQueryString(search),
          options |-> options]>>
  ELSE <<>>

\* ---------------------------------------------------------- update queue

\* The queue's entries: <<key, value>> in the order the keys were first
\* written; the value "null" asks for the key's removal.
QueueHas(q, k) == \E i \in 1..Len(q) : q[i][1] = k

\* enqueue keeping the first write of a key instead of the last.
QueuePutFirstWins(q, k, v) == IF QueueHas(q, k) THEN q ELSE Append(q, <<k, v>>)

\* enqueue(key, value): inserts the key's entry or overwrites it.
QueuePut(q, k, v) ==
  IF QueueHas(q, k)
  THEN [i \in 1..Len(q) |-> IF q[i][1] = k THEN <<k, v>> ELSE q[i]]
  ELSE Append(q, <<k, v>>)

\* The options of a batch: push when any of its writes asks for push.
MergeHistory(current, history) == IF history = "push" THEN "push" ELSE current

DefaultQueueOptions == [history |-> "replace", shallow |-> "true", scroll |-> "false"]

\* The flush's search: every entry applied to the adapter's search params,
\* a "null" value deleting the key and any other setting it.
RECURSIVE ApplyQueue(_, _)
ApplyQueue(search, q) ==
  IF q = <<>> THEN search
  ELSE ApplyQueue(IF Head(q)[2] = "null" THEN ParamsDelete(search, Head(q)[1])
                  ELSE ParamsSet(search, Head(q)[1], Head(q)[2]),
                  Tail(q))

\* --------------------------------------------------- inputs of the codecs

ItemKinds == {"string", "integer", "boolean", "custom"}

\* The default separator, and one that encodeURIComponent leaves alone.
Seps == {<<",">>, <<"-">>}

Codecs ==
  {Scalar(k) : k \in {"string", "integer", "float", "boolean", "timestamp",
                      "isoDateTime", "stringEnum"}}
  \cup {Codec("json", "none", <<>>, v) : v \in {"none", "number"}}
  \cup {Codec("arrayOf", item, sep, "none") : item \in ItemKinds, sep \in Seps}

EnginesFor(c) == IF c.kind = "isoDateTime" THEN Engines ELSE {"strict"}

IsoOf5 == IsoPrefix \o <<"0", "0", ".", "0", "0", "5", "Z">>

\* Raw strings beyond those over Alphabet: the boolean and JSON literals, an
\* ISO date, a year, and the JSON texts "a" and [2,5], escaped and not.
SpecialStrings ==
  {STrue, SFalse, SNull, SUndefined, IsoOf5, <<"2", "0", "2", "5">>,
   <<"%", "2", "2", "a", "%", "2", "2">>,
   <<"%", "5", "B", "2", "%", "2", "C", "5", "%", "5", "D">>,
   <<"[", "2", ",", "5", "]">>, <<"[", "2", ",", "]">>}

RawStrings == Strs(Alphabet, MaxLen) \cup SpecialStrings

\* The strings of the values handed to parseServerSide.
ServerStrings == Strs(Alphabet, 1) \cup {<<"1">>, <<"2", "5">>, <<"a", ",", "a">>}

RECURSIVE SeqsOfLen(_, _)
SeqsOfLen(S, n) ==
  IF n = 0 THEN {<<>>}
  ELSE {<<x>> \o s : x \in S, s \in SeqsOfLen(S, n - 1)}

SeqsUpTo(S, n) == UNION {SeqsOfLen(S, k) : k \in 0..n}

\* string | string[] | undefined
ServerValues ==
  {Undefined} \cup {Str(s) : s \in ServerStrings}
  \cup {Arr(a) : a \in SeqsUpTo({Str(s) : s \in ServerStrings}, MaxItems)}

IntegerValues == {IntV(i) : i \in (-MaxInt)..MaxInt}

Floats ==
  {Num(neg, ip, fr) : neg \in BOOLEAN, ip \in 0..MaxInt,
                      fr \in {<<>>, <<"5">>, <<"2", "5">>, <<"0", "2">>}}

JsonScalars ==
  {Null, Bool(TRUE), Bool(FALSE)} \cup {IntV(i) : i \in {-2, 0, 5}}
  \cup {Num(FALSE, 2, <<"5">>)} \cup {Str(s) : s \in Strs({"a", ",", "%", "\""}, 1)}

ItemDomain(kind) ==
  CASE kind \in {"string", "custom"} -> {Str(s) : s \in Strs(Alphabet, 1)}
    [] kind = "integer" -> {IntV(i) : i \in {-5, 0, 2, 25}}
    [] kind = "boolean" -> {Bool(TRUE), Bool(FALSE)}

\* The values a codec is meant to carry (its valid domain).
Domain(c) ==
  CASE c.kind = "string" -> {Str(s) : s \in Strs(Alphabet, MaxLen)}
    [] c.kind = "integer" -> IntegerValues
    [] c.kind = "float" -> Floats
    [] c.kind = "boolean" -> {Bool(TRUE), Bool(FALSE)}
    [] c.kind = "timestamp" -> {DateOf(ms) : ms \in (-MaxInt)..MaxInt}
    [] c.kind = "isoDateTime" ->
         {DateOf(ms) : ms \in 0..MaxInt} \cup {DateOf(59999), DateOfYear(<<"2", "0", "2", "5">>)}
    [] c.kind = "stringEnum" -> {Str(s) : s \in ValidValues}
    [] c.kind = "json" /\ c.validator = "number" -> IntegerValues
    [] c.kind = "json" /\ c.validator = "none" ->
         JsonScalars \cup {Arr(a) : a \in SeqsUpTo(JsonScalars, MaxItems)}
    [] c.kind = "arrayOf" -> {Arr(a) : a \in SeqsUpTo(ItemDomain(c.item), MaxItems)}

\* The module-level codecs the builder calls start from.
BaseCodecs ==
  {Scalar("integer"), Scalar("string"), Codec("arrayOf", "string", <<",">>, "none")}

\* The options handed to withOptions.
OptionArgs ==
  {[NoOptions EXCEPT !.history = "push", !.throttleMs = "50"],
   [NoOptions EXCEPT !.history = "replace", !.shallow = "false", !.scroll = "undefined"]}

\* The values handed to withDefault, two for each codec.
DefaultArgs(c) ==
  CASE c.kind = "integer" -> {IntV(0), IntV(5)}
    [] c.kind = "string" -> {Str(<<>>), Str(<<"a">>)}
    [] c.kind = "arrayOf" -> {Arr(<<>>), Arr(<<Str(<<"a">>)>>)}

\* The values handed to a builder's parseServerSide.
BuilderRaws ==
  {Undefined, Str(<<"2">>), Str(<<"a">>), Str(<<"%">>), Arr(<<>>),
   Arr(<<Str(<<"5">>), Str(<<"a">>)>>)}

\* The writes enqueued: a key, its serialized value ("null" removes the
\* key) and the history option of the write.
EnqueueArgs ==
  {[key |-> "a", value |-> "x", history |-> "replace"],
   [key |-> "a", value |-> "y", history |-> "push"],
   [key |-> "a", value |-> "null", history |-> "replace"],
   [key |-> "b", value |-> "x", history |-> "push"],
   [key |-> "b", value |-> "y", history |-> "replace"]}

\* The props NuqsTestingAdapter is called with: no seed, no callback and no
\* reset; a string seed, a callback, a rate-limit factor and the default
\* reset; a URLSearchParams seed, a callback and the reset asked for.
PropsArgs ==
  {Props([form |-> "none", pairs |-> <<>>], FALSE, "absent", "false"),
   Props([form |-> "string", pairs |-> <<<<"a", "x">>>>], TRUE, "2", "absent"),
   Props([form |-> "params", pairs |-> <<<<"b", "x">>, <<"a", "y">>, <<"b", "y">>>>], TRUE, "0", "true")}

\* The arguments of a direct call of updateUrl.
DirectCalls ==
  {[search |-> <<<<"b", "x">>, <<"a", "y">>>>,
    options |-> [history |-> "push", shallow |-> "false", scroll |-> "true"]]}

\* ------------------------------------------------------------------ state

VARIABLES
  pc,      \* "ready" before the call of a behaviour, "done" after it
  op,      \* the call made: "parse", "roundtrip" or "parseServerSide"
  codec,   \* the codec it was made on
  engine,  \* the engine's way with non-ISO date strings
  arg,     \* its argument
  mid,     \* roundtrip: what serialize returned; parseServerSide: the str
           \* handed to parse
  out,     \* what it returned, or the error it threw
  heap,    \* the builder objects there are, the module-level codec first
  call,    \* the last call on a builder: [op, recv, arg, options, out]
  adapter, \* the adapter provided: the props of its NuqsTestingAdapter call,
           \* and gen, the number of that call (0: none yet)
  queue,   \* the update queue's entries
  queueOptions, \* the options merged from the batch's writes
  timer,   \* whether a flush is scheduled
  window,  \* the writes since the flush was scheduled, each with the gen of
           \* the adapter it was made under
  timerGen, \* the gen of the adapter under which the flush was scheduled
  events,  \* the events onUrlUpdate was called with, in order
  calls,   \* the calls of updateUrl, in order: the adapter's gen and props,
           \* the arguments, and for a flush its batch and its timer's gen
  ops      \* the number of writes enqueued so far

codecVars == <<pc, op, codec, engine, arg, mid, out>>

builderVars == <<heap, call>>

queueVars == <<queue, queueOptions, timer, window, timerGen>>

adapterVars ==
  <<adapter, queue, queueOptions, timer, window, timerGen, events, calls, ops>>

vars == <<pc, op, codec, engine, arg, mid, out, heap, call,
          adapter, queue, queueOptions, timer, window, timerGen, events, calls, ops>>

NoCall == [op |-> "none", recv |-> 0, arg |-> Undefined, options |-> NoOptions, out |-> Undefined]

CodecsIdle ==
  /\ pc = "ready"
  /\ op = "none"
  /\ codec = Scalar("string")
  /\ engine = "strict"
  /\ arg = Undefined
  /\ mid = Undefined
  /\ out = Undefined

BuildersIdle ==
  /\ heap = <<CreateParser(Scalar("string"))>>
  /\ call = NoCall

AdapterIdle ==
  /\ adapter = [gen |-> 0, props |-> Props([form |-> "none", pairs |-> <<>>], FALSE, "absent", "absent")]
  /\ queue = <<>>
  /\ queueOptions = DefaultQueueOptions
  /\ timer = FALSE
  /\ window = <<>>
  /\ timerGen = 0
  /\ events = <<>>
  /\ calls = <<>>
  /\ ops = 0

Init == CodecsIdle /\ BuildersIdle /\ AdapterIdle

\* codec.parse(raw) for a raw string
CallParse ==
  /\ pc = "ready"
  /\ \E c \in Codecs, s \in RawStrings :
       \E e \in EnginesFor(c) :
         /\ codec' = c
         /\ engine' = e
         /\ arg' = Str(s)
         /\ out' = Parse(c, e, Str(s))
  /\ op' = "parse"
  /\ mid' = Undefined
  /\ pc' = "done"
  /\ UNCHANGED <<builderVars, adapterVars>>

\* codec.parse(codec.serialize(v)) for a value of the codec's domain
CallRoundTrip ==
  /\ pc = "ready"
  /\ \E c \in Codecs :
       \E e \in EnginesFor(c), v \in Domain(c) :
         LET ser == Serialize(c, v) IN
         /\ codec' = c
         /\ engine' = e
         /\ arg' = v
         /\ mid' = ser
         /\ out' = IF IsThrow(ser) THEN ser ELSE Parse(c, e, ser)
  /\ op' = "roundtrip"
  /\ pc' = "done"
  /\ UNCHANGED <<builderVars, adapterVars>>

\* createParser(codec).parseServerSide(raw)
CallParseServerSide ==
  /\ pc = "ready"
  /\ \E c \in Codecs, raw \in ServerValues :
       \E e \in EnginesFor(c) :
         /\ codec' = c
         /\ engine' = e
         /\ arg' = raw
         /\ mid' = ServerSideStr(raw)
         /\ out' = ParseServerSide(c, e, raw)
  /\ op' = "parseServerSide"
  /\ pc' = "done"
  /\ UNCHANGED <<builderVars, adapterVars>>

Next == CallParse \/ CallRoundTrip \/ CallParseServerSide

Spec == Init /\ [][Next]_vars

\* The builder calls of a behaviour end with a call of parseServerSide.
ChainOpen == call.op # "parseServerSide" /\ Len(heap) < 1 + MaxChain

\* heap[i].withOptions(options)
WithOptions ==
  /\ ChainOpen
  /\ \E i \in 1..Len(heap), options \in OptionArgs :
       /\ heap' = HeapAfterWithOptions(heap, i, options)
       /\ call' = [op |-> "withOptions", recv |-> i, arg |-> Undefined,
                   options |-> options, out |-> Undefined]
  /\ UNCHANGED <<codecVars, adapterVars>>

\* heap[i].withDefault(d)
WithDefault ==
  /\ ChainOpen
  /\ \E i \in 1..Len(heap) :
       \E d \in DefaultArgs(heap[i].codec) :
         /\ heap' = HeapAfterWithDefault(heap, i, d)
         /\ call' = [op |-> "withDefault", recv |-> i, arg |-> d,
                     options |-> NoOptions, out |-> Undefined]
  /\ UNCHANGED <<codecVars, adapterVars>>

\* heap[i].parseServerSide(raw)
BuilderCallParseServerSide ==
  /\ call.op # "parseServerSide"
  /\ \E i \in 1..Len(heap), raw \in BuilderRaws :
       call' = [op |-> "parseServerSide", recv |-> i, arg |-> raw,
                options |-> NoOptions,
                out |-> BuilderParseServerSide(heap[i], "strict", raw)]
  /\ UNCHANGED heap
  /\ UNCHANGED <<codecVars, adapterVars>>

BuilderNext == WithOptions \/ WithDefault \/ BuilderCallParseServerSide

\* The module-level codec is one of parseAsInteger, parseAsString and
\* parseAsArrayOf(parseAsString).
BuilderInit ==
  /\ CodecsIdle
  /\ AdapterIdle
  /\ \E c \in BaseCodecs : heap = <<CreateParser(c)>>
  /\ call = NoCall

BuilderSpec == BuilderInit /\ [][BuilderNext]_vars

\* resetQueue(): the entries dropped, the scheduled flush cancelled.
ResetQueue ==
  /\ queue' = <<>>
  /\ queueOptions' = DefaultQueueOptions
  /\ timer' = FALSE
  /\ window' = <<>>
  /\ timerGen' = 0

\* NuqsTestingAdapter(props): the queue reset when asked for, and then the
\* adapter provided.
NuqsTestingAdapter ==
  /\ adapter.gen < MaxMounts
  /\ \E props \in PropsArgs :
       /\ IF ResetOnMount(props) THEN ResetQueue ELSE UNCHANGED queueVars
       /\ adapter' = [gen |-> adapter.gen + 1, props |-> props]
  /\ UNCHANGED <<events, calls, ops>>
  /\ UNCHANGED <<codecVars, builderVars>>

\* enqueue(key, value, options) under the adapter provided: the entry is
\* written and a flush scheduled if none is.
Enqueue ==
  /\ adapter.gen > 0
  /\ ops < MaxOps
  /\ ops' = ops + 1
  /\ \E e \in EnqueueArgs :
       /\ queue' = QueuePut(queue, e.key, e.value)
       /\ queueOptions' = [queueOptions EXCEPT !.history = MergeHistory(@, e.history)]
       /\ window' = Append(window, [key |-> e.key, value |-> e.value, gen |-> adapter.gen])
  /\ timer' = TRUE
  /\ timerGen' = IF timer THEN timerGen ELSE adapter.gen
  /\ UNCHANGED <<adapter, events, calls>>
  /\ UNCHANGED <<codecVars, builderVars>>

CallRecord(search, options, batch, gen, direct) ==
  [gen |-> adapter.gen, props |-> adapter.props, search |-> search,
   options |-> options, batch |-> batch, timerGen |-> gen, direct |-> direct]

\* The scheduled flush fires: the batch is applied to the adapter's search
\* params and handed to its updateUrl, once, and the queue is cleared.
Flush ==
  /\ timer
  /\ adapter.gen > 0
  /\ Len(calls) < MaxCalls
  /\ LET search == ApplyQueue(UseAdapter(adapter.props).searchParams, queue) IN
       /\ events' = events \o UpdateUrl(adapter.props, search, queueOptions)
       /\ calls' = Append(calls, CallRecord(search, queueOptions, window, timerGen, FALSE))
  /\ ResetQueue
  /\ UNCHANGED <<adapter, ops>>
  /\ UNCHANGED <<codecVars, builderVars>>

\* useAdapter().updateUrl(search, options) called by hand.
DirectUpdateUrl ==
  /\ adapter.gen > 0
  /\ Len(calls) < MaxCalls
  /\ \E c \in DirectCalls :
       /\ events' = events \o UpdateUrl(adapter.props, c.search, c.options)
       /\ calls' = Append(calls, CallRecord(c.search, c.options, <<>>, 0, TRUE))
  /\ UNCHANGED <<adapter, queueVars, ops>>
  /\ UNCHANGED <<codecVars, builderVars>>

AdapterNext == NuqsTestingAdapter \/ Enqueue \/ Flush \/ DirectUpdateUrl

AdapterSpec == Init /\ [][AdapterNext]_vars

\* ------------------------------------------------- claims on the codecs

Done(o) == pc = "done" /\ op = o

\* C1: for every built-in codec and every value v of its valid domain,
\* parse(serialize(v)) equals v (for parseAsArrayOf: for every sequence of
\* valid items, the empty string and items holding the separator included).
RoundTripIsIdentity == Done("roundtrip") => out = arg

\* C2: parse never throws, and returns null for a raw string that does not
\* decode into a valid value of the codec's type (an Invalid Date is none).
ParseNeverThrowsNullOnFailure ==
  Done("parse") => ~IsThrow(out) /\ out.tag # "invalidDate"

\* The str the claim C3 has parseServerSide hand to parse.
ClaimedStr(raw) ==
  CASE IsString(raw) -> raw
    [] IsArray(raw) -> (IF raw.items = <<>> THEN Undefined ELSE Head(raw.items))
    [] raw = Undefined -> Str(<<>>)

\* C3: parseServerSide(raw) is parse(raw) for a string, parse of the first
\* element for an array, whatever follows it, and parse('') for undefined.
ServerSideParsesFirst ==
  Done("parseServerSide") =>
    /\ out = Parse(codec, engine, ClaimedStr(arg))
    /\ IsArray(arg) /\ arg.items # <<>> =>
         \A rest \in SeqsUpTo({Str(s) : s \in ServerStrings}, MaxItems - 1) :
           ParseServerSide(codec, engine, Arr(<<Head(arg.items)>> \o rest)) = out

\* C3 witness: the integer codec's parseServerSide(['1', '2']) returned 1.
ServerSideFirstWinsReached ==
  /\ Done("parseServerSide")
  /\ codec = Scalar("integer")
  /\ arg = Arr(<<Str(<<"1">>), Str(<<"2">>)>>)
  /\ out = IntV(1)

\* C4: parseServerSide throws for no string | string[] | undefined, the
\* empty array included, and hands parse a string only.
ServerSideNeverThrows ==
  Done("parseServerSide") => ~IsThrow(out) /\ IsString(mid)

\* C7: parseAsArrayOf(item, sep).parse(q) returns a sequence: the empty one
\* for q = '', else the non-nullish results, in order, of item.parse on each
\* URI-decoded segment of q split on sep; never longer than the segments.
ArrayOfParsesSegments ==
  Done("parse") /\ codec.kind = "arrayOf" =>
    LET segs == Split(arg.s, codec.sep)
        dec == [i \in 1..Len(segs) |-> DecodeURIComponent(segs[i])]
    IN /\ IsArray(out)
       /\ arg.s = <<>> => out.items = <<>>
       /\ \A i \in 1..Len(out.items) : ~IsNullish(out.items[i])
       /\ Len(out.items) <= Len(segs)
       /\ arg.s # <<>> /\ (\A i \in 1..Len(segs) : ~IsThrow(dec[i])) =>
            out.items =
              SelectSeq([i \in 1..Len(segs) |->
                           ParseScalar(codec.item, "none", engine, dec[i])],
                        LAMBDA x : ~IsNullish(x))

\* ------------------------------------------------ claims on the builders

\* C5: a builder with a defaultValue attribute, however withOptions and
\* withDefault made it, returns from parseServerSide(raw) no null and no
\* undefined: its defaultValue when the codec's parse result is nullish, and
\* the parse result otherwise.
DefaultValueAlwaysReturned ==
  call.op = "parseServerSide" /\ heap[call.recv].hasDefault =>
    LET b == heap[call.recv]
        parsed == ParseServerSide(b.codec, "strict", call.arg)
    IN ~IsThrow(parsed) =>
         /\ ~IsNullish(call.out)
         /\ IsNullish(parsed) => call.out = b.defaultValue
         /\ ~IsNullish(parsed) => call.out = parsed

\* C6: withOptions and withDefault add one builder and leave every builder
\* there was as it was, the receiver and the module-level codec included;
\* the new builder carries the receiver's parse and serialize, and after
\* withOptions the receiver's options overridden by the keys handed in.
BuilderCallsLeaveReceiver ==
  [][/\ \A i \in 1..Len(heap) : i <= Len(heap') /\ heap'[i] = heap[i]
     /\ heap'[1] = CreateParser(heap[1].codec)
     /\ call'.op \in {"withOptions", "withDefault"} =>
          /\ Len(heap') = Len(heap) + 1
          /\ heap'[Len(heap')].codec = heap[call'.recv].codec
     /\ call'.op = "withOptions" =>
          \A k \in OptionKeys :
            heap'[Len(heap')].options[k] =
              IF call'.options[k] = "absent" THEN heap[call'.recv].options[k]
              ELSE call'.options[k]
     /\ call'.op = "withDefault" =>
          /\ heap'[Len(heap')].options = heap[call'.recv].options
          /\ heap'[Len(heap')].defaultValue = call'.arg
     /\ call'.op = "parseServerSide" => heap' = heap]_vars

\* C6 witness: the module-level codec was given options twice, the second
\* time over a builder made from it, and is still as createParser made it.
ReceiverKeptReached ==
  /\ Len(heap) >= 3
  /\ call.op = "withOptions"
  /\ call.recv = 1
  /\ heap[1] = CreateParser(heap[1].codec)
  /\ heap[Len(heap)].options = call.options
  /\ \E j \in 2..(Len(heap) - 1) :
       heap[j].options # NoOptions /\ heap[j].options # call.options

\* ------------------------------------- claims on the adapter and the queue

\* The event a call of updateUrl is to hand to onUrlUpdate.
EventOf(c) ==
  [searchParams |-> c.search, queryString |-> RenderQueryString(c.search),
   options |-> c.options]

\* C8: the events onUrlUpdate received are, in the order of the calls of
\* updateUrl, one for each call made while a callback was given and none for
\* the others, each with the search and the options of its call and the
\* query string rendered from that search; what useAdapter() returns holds
\* the pre-seeded search params and the configured rateLimitFactor, or 0.
EachCallOneEvent ==
  LET heard == SelectSeq(calls, LAMBDA c : c.props.onUrlUpdate) IN
    /\ events = [i \in 1..Len(heard) |-> EventOf(heard[i])]
    /\ adapter.gen > 0 =>
         /\ UseAdapter(adapter.props).searchParams =
              (IF adapter.props.searchParams.form = "none" THEN <<>>
               ELSE adapter.props.searchParams.pairs)
         /\ UseAdapter(adapter.props).rateLimitFactor =
              (IF adapter.props.rateLimitFactor = "absent" THEN "0"
               ELSE adapter.props.rateLimitFactor)

\* C8 witness: a flush and a call by hand reached adapters with a callback,
\* which received two different events; the adapter there is now has a
\* non-empty seed that neither call's search equals.
TwoEventsReached ==
  /\ Len(calls) = 2
  /\ Len(events) = 2
  /\ calls[1].direct # calls[2].direct
  /\ events[1] # events[2]
  /\ adapter.props.searchParams.form # "none"
  /\ \A i \in 1..2 : events[i].searchParams # UseAdapter(adapter.props).searchParams

\* The flushes that reached an adapter installed with the reset.
FlushIsolated(c) ==
  ~c.direct /\ c.props.resetUrlUpdateQueueOnMount # "false" =>
    /\ c.timerGen = c.gen
    /\ \A i \in 1..Len(c.batch) : c.batch[i].gen = c.gen

\* C9: installing NuqsTestingAdapter with resetUrlUpdateQueueOnMount true or
\* left out empties the queue and cancels the scheduled flush, and with
\* false leaves them as they are; a flush that reaches an adapter installed
\* with the reset was scheduled under it and holds only writes enqueued
\* under it.
ResetIsolation ==
  /\ [](\A i \in 1..Len(calls) : FlushIsolated(calls[i]))
  /\ [][adapter'.gen # adapter.gen =>
          IF adapter'.props.resetUrlUpdateQueueOnMount = "false"
          THEN UNCHANGED queueVars
          ELSE queue' = <<>> /\ window' = <<>> /\ ~timer']_vars

\* C9 witness: a write was pending when a second adapter was installed with
\* the prop left out; the flush that reached that adapter holds one write,
\* enqueued under it.
StaleWriteDroppedReached ==
  /\ Len(calls) = 1
  /\ ~calls[1].direct
  /\ calls[1].gen = 2
  /\ calls[1].props.resetUrlUpdateQueueOnMount = "absent"
  /\ Len(calls[1].batch) = 1
  /\ ops = 2

\* The value of the last write of key k in a batch.
LastWrite(batch, k) ==
  batch[CHOOSE i \in 1..Len(batch) :
          batch[i].key = k /\ \A j \in (i + 1)..Len(batch) : batch[j].key # k].value

\* The search of a flush holds key k once, with value v.
HoldsOnce(search, k, v) ==
  Cardinality({i \in 1..Len(search) : search[i][1] = k}) = 1 /\ ParamsGet(search, k) = v

\* C10: an enqueue calls updateUrl never; the writes of one window reach
\* updateUrl in one call, which ends the window; the search of that call
\* holds, for every key written in the window, the value of the key's last
\* write there (and not the key when that value is null, which removes it).
WindowCoalesced ==
  /\ [](window # <<>> => timer)
  /\ [](\A i \in 1..Len(calls) :
          ~calls[i].direct =>
            /\ calls[i].batch # <<>>
            /\ \A j \in 1..Len(calls[i].batch) :
                 LET k == calls[i].batch[j].key
                     v == LastWrite(calls[i].batch, k)
                 IN IF v = "null" THEN ~ParamsHas(calls[i].search, k)
                    ELSE HoldsOnce(calls[i].search, k, v))
  /\ [][/\ ops' # ops => calls' = calls /\ events' = events /\ window' # <<>>
        /\ calls' # calls /\ ~calls'[Len(calls')].direct =>
             /\ calls' = Append(calls, calls'[Len(calls')])
             /\ calls'[Len(calls')].batch = window
             /\ window' = <<>>
             /\ ~timer']_vars

\* C10 witness: key a was written twice in one window, with two values, the
\* second no removal, and one call of updateUrl took the two writes.
LastWriteWinsReached ==
  /\ Len(calls) = 1
  /\ ~calls[1].direct
  /\ Len(calls[1].batch) = 2
  /\ calls[1].batch[1].key = "a"
  /\ calls[1].batch[2].key = "a"
  /\ calls[1].batch[2].value \notin {calls[1].batch[1].value, "null"}
  /\ window = <<>>

====
